---- MODULE Spec2Model ----
(***************************************************************************)
(* Bill extraction core: OCR tokens -> rows (OCRExtractor.group_by_row)    *)
(* -> raw items (TableParser.parse_rows) -> cleaned items and messages     *)
(* (BillValidator.validate_and_clean), as driven by main.extract_bill_data.*)
(*                                                                         *)
(* Representation.                                                         *)
(*  - A Python str is a sequence of one-character strings.                 *)
(*  - A Python float is an integer number of hundredths (Scale = 100), so  *)
(*    1234.50 is 123450.  Every text of the pools below has at most two    *)
(*    fractional digits, so the representation is exact on them.  IEEE     *)
(*    specials (nan, inf, signed zero, exponent forms) are outside the     *)
(*    pools and are not modelled.                                          *)
(*  - A Python value held in a dict is tagged with its type: PyFloat(v),   *)
(*    PyStr(s), PyNone.  A dict is a function from its keys to values.     *)
(*  - hashlib.md5 is taken to be collision free: md5(key) is the key.      *)
(***************************************************************************)
EXTENDS Integers, Sequences, FiniteSets, TLC

VARIABLES
    pc,               \* position in extract_bill_data (main.py:105-207)
    page,             \* the text lines on the page handed to the OCR engine
    ocr_results,      \* main.py:130  tokens returned by ocr_extractor.extract
    rows,             \* main.py:135  group_by_row(ocr_results)
    raw_items,        \* main.py:141  parse_rows(rows)
    validated_items,  \* validate_and_clean's local after Step 1 (line 56)
    deduplicated,     \* validate_and_clean's local after Step 2 (line 59)
    cleaned_items,    \* main.py:147  first component of validate_and_clean
    validation_msgs,  \* main.py:147  second component of validate_and_clean
    debug_log,        \* records passed to logger.warning / logger.debug
    second,           \* result of validate_and_clean applied to cleaned_items
    calls,            \* the locals of each concurrent call of extract_bill_data
    singletons        \* the module globals _ocr_extractor, _table_parser, _validator

vars == <<pc, page, ocr_results, rows, raw_items, validated_items,
          deduplicated, cleaned_items, validation_msgs, debug_log, second,
          calls, singletons>>

-----------------------------------------------------------------------------
(* Python str primitives                                                   *)

Scale == 10 * 10

UpperCase == <<"A","B","C","D","E","F","G","H","I","J","K","L","M",
               "N","O","P","Q","R","S","T","U","V","W","X","Y","Z">>
LowerCase == <<"a","b","c","d","e","f","g","h","i","j","k","l","m",
               "n","o","p","q","r","s","t","u","v","w","x","y","z">>
Digits == <<"0","1","2","3","4","5","6","7","8","9">>

IsSpace(c) == c \in {" ", "\t", "\n"}
IsDigit(c) == \E i \in 1..10 : Digits[i] = c
DigitVal(c) == (CHOOSE i \in 1..10 : Digits[i] = c) - 1

LowerChar(c) ==
    IF \E i \in 1..26 : UpperCase[i] = c
    THEN LowerCase[CHOOSE i \in 1..26 : UpperCase[i] = c]
    ELSE c

\* str.lower()
lower(s) == [i \in 1..Len(s) |-> LowerChar(s[i])]

RECURSIVE lstrip(_)
lstrip(s) == IF s # <<>> /\ IsSpace(Head(s)) THEN lstrip(Tail(s)) ELSE s

RECURSIVE rstrip(_)
rstrip(s) ==
    IF s # <<>> /\ IsSpace(s[Len(s)]) THEN rstrip(SubSeq(s, 1, Len(s) - 1)) ELSE s

\* str.strip()
strip(s) == rstrip(lstrip(s))

\* str.replace(old, new) for a non-empty old: leftmost, non-overlapping
RECURSIVE replace(_, _, _)
replace(s, old, new) ==
    IF Len(s) < Len(old) THEN s
    ELSE IF SubSeq(s, 1, Len(old)) = old
         THEN new \o replace(SubSeq(s, Len(old) + 1, Len(s)), old, new)
         ELSE <<Head(s)>> \o replace(Tail(s), old, new)

\* sub in s
Contains(s, sub) ==
    \E i \in 0..(Len(s) - Len(sub)) : SubSeq(s, i + 1, i + Len(sub)) = sub

\* " ".join(parts)
RECURSIVE join(_)
join(parts) ==
    IF parts = <<>> THEN <<>>
    ELSE IF Len(parts) = 1 THEN parts[1]
    ELSE parts[1] \o <<" ">> \o join(Tail(parts))

RECURSIVE NatOf(_)
NatOf(ds) ==
    IF ds = <<>> THEN 0
    ELSE NatOf(SubSeq(ds, 1, Len(ds) - 1)) * 10 + DigitVal(ds[Len(ds)])

AllDigits(ds) == \A i \in 1..Len(ds) : IsDigit(ds[i])

\* hundredths denoted by the fractional digits fs (exact for at most two)
FracOf(fs) ==
    LET d(i) == IF i <= Len(fs) THEN DigitVal(fs[i]) ELSE 0
    IN  d(1) * 10 + d(2)

ValueError == [ok |-> FALSE]

\* the digits before and after the decimal point, with the sign
FloatOfParts(sgn, ip, fp) ==
    IF AllDigits(ip) /\ AllDigits(fp) /\ Len(ip) + Len(fp) >= 1
    THEN [ok |-> TRUE, v |-> sgn * (NatOf(ip) * Scale + FracOf(fp))]
    ELSE ValueError

\* u is the text after its sign; dots are the positions of "." in it
FloatOfUnsigned(sgn, u, dots) ==
    IF dots = {} THEN FloatOfParts(sgn, u, <<>>)
    ELSE IF Cardinality(dots) > 1 THEN ValueError
    ELSE FloatOfParts(sgn, SubSeq(u, 1, (CHOOSE i \in dots : TRUE) - 1),
                           SubSeq(u, (CHOOSE i \in dots : TRUE) + 1, Len(u)))

FloatOfSigned(sgn, u) == FloatOfUnsigned(sgn, u, {i \in 1..Len(u) : u[i] = "."})

FloatOfStripped(t) ==
    IF t # <<>> /\ Head(t) = "-" THEN FloatOfSigned(-1, Tail(t))
    ELSE IF t # <<>> /\ Head(t) = "+" THEN FloatOfSigned(1, Tail(t))
    ELSE FloatOfSigned(1, t)

\* float(text) on a str: surrounding whitespace is ignored, then
\* [sign] digits [ "." [digits] ]  or  [sign] "." digits ; anything else
\* raises ValueError.
ParseFloat(s) == FloatOfStripped(strip(s))

RECURSIVE NatStr(_)
NatStr(n) ==
    IF n < 10 THEN <<Digits[n + 1]>>
    ELSE NatStr(n \div 10) \o <<Digits[(n % 10) + 1]>>

FracStr(fr) ==
    IF fr % 10 = 0 THEN <<Digits[(fr \div 10) + 1]>>
    ELSE <<Digits[(fr \div 10) + 1], Digits[(fr % 10) + 1]>>

\* repr of a float, as an f-string renders it: 10.0, 2.5, 0.05, -5.0
FormatFloat(v) ==
    IF v < 0
    THEN <<"-">> \o NatStr((-v) \div Scale) \o <<".">> \o FracStr((-v) % Scale)
    ELSE NatStr(v \div Scale) \o <<".">> \o FracStr(v % Scale)

-----------------------------------------------------------------------------
(* Python values held in the item dicts                                    *)

PyNone == [t |-> "NoneType"]
PyFloat(v) == [t |-> "float", f |-> v]
PyStr(s) == [t |-> "str", s |-> s]

\* float(x): a float is itself, a str is parsed, None raises TypeError
float(x) ==
    IF x.t = "float" THEN [ok |-> TRUE, v |-> x.f]
    ELSE IF x.t = "str" THEN ParseFloat(x.s)
    ELSE ValueError

\* f"{x}"
Format(x) ==
    IF x.t = "float" THEN FormatFloat(x.f)
    ELSE IF x.t = "str" THEN x.s
    ELSE <<"N","o","n","e">>

RECURSIVE Flatten(_)
Flatten(ss) == IF ss = <<>> THEN <<>> ELSE Head(ss) \o Flatten(Tail(ss))

-----------------------------------------------------------------------------
(* BillValidator  (services/services_validator.py)                         *)

amount_tolerance == 5      \* 0.05, in hundredths

required_fields == <<"item_name", "item_quantity", "item_rate", "item_amount">>

subtotal_keywords ==
    { <<"s","u","b","t","o","t","a","l">>,
      <<"s","u","b","-","t","o","t","a","l">>,
      <<"t","o","t","a","l">>,
      <<"t","a","x">>,
      <<"g","s","t">>,
      <<"d","i","s","c","o","u","n","t">> }

Abs(n) == IF n < 0 THEN -n ELSE n
Max(a, b) == IF a >= b THEN a ELSE b

\* relative_error > self.amount_tolerance, for qty > 0 and rate > 0 (lines
\* 102-105).  qty * rate and amount are compared in units of 1 / Scale^2;
\* e / m > amount_tolerance / Scale is e * (Scale / amount_tolerance) > m.
AmountMismatch(qty, rate, amount) ==
    Abs(amount * Scale - qty * rate) * (Scale \div amount_tolerance)
        > Max(amount * Scale, qty * rate)

\* the fields of item that are absent or None, as positions in required_fields
AbsentFields(item) ==
    {i \in 1..4 : \/ required_fields[i] \notin DOMAIN item
                  \/ item[required_fields[i]] = PyNone}

\* CheckAmounts with the amount check used as a gate: a mismatch rejects
CheckAmounts_reject_mismatch(name, qty, rate, amount) ==
    IF ~(qty.ok /\ rate.ok /\ amount.ok)
    THEN [valid |-> FALSE, mismatch |-> FALSE,
          msg |-> [text |-> "Validation error"]]
    ELSE IF amount.v = 0 /\ qty.v = 0
    THEN [valid |-> FALSE, mismatch |-> FALSE,
          msg |-> [text |-> "Zero amount item", name |-> name]]
    ELSE IF qty.v > 0 /\ rate.v > 0 /\ AmountMismatch(qty.v, rate.v, amount.v)
    THEN [valid |-> FALSE, mismatch |-> TRUE,
          msg |-> [text |-> "Amount mismatch", name |-> name]]
    ELSE [valid |-> TRUE, mismatch |-> FALSE,
          msg |-> [text |-> "Valid", name |-> name]]

\* lines 91-113 of _validate_item, after the three float() conversions
CheckAmounts(name, qty, rate, amount) ==
    IF ~(qty.ok /\ rate.ok /\ amount.ok)
    THEN [valid |-> FALSE, mismatch |-> FALSE,
          msg |-> [text |-> "Validation error"]]
    ELSE IF amount.v = 0 /\ qty.v = 0
    THEN [valid |-> FALSE, mismatch |-> FALSE,
          msg |-> [text |-> "Zero amount item", name |-> name]]
    ELSE [valid |-> TRUE,
          mismatch |-> /\ qty.v > 0 /\ rate.v > 0
                       /\ AmountMismatch(qty.v, rate.v, amount.v),
          msg |-> [text |-> "Valid", name |-> name]]

FirstAbsent(item, absent) ==
    [valid |-> FALSE, mismatch |-> FALSE,
     msg |-> [text |-> "Item missing",
              field |-> required_fields[CHOOSE i \in absent : \A j \in absent : i <= j],
              item |-> item]]

\* _validate_item: (is_valid, message), and whether logger.debug recorded
\* an amount mismatch.  Any exception inside is caught (lines 115-116).
_validate_item(item) ==
    IF AbsentFields(item) # {}
    THEN FirstAbsent(item, AbsentFields(item))
    ELSE CheckAmounts(item["item_name"], float(item["item_quantity"]),
                      float(item["item_rate"]), float(item["item_amount"]))

md5(key) == key

\* _create_hash without name.lower().strip(): the key keeps the name as written
_create_hash_raw_name(name, qty, rate) ==
    md5(name.s \o <<"|">> \o Format(qty) \o <<"|">> \o Format(rate))

\* _create_hash(name, qty, rate) on a str name
_create_hash(name, qty, rate) ==
    md5(strip(lower(name.s)) \o <<"|">> \o Format(qty) \o <<"|">> \o Format(rate))

\* DedupStep keeping the last occurrence: a later item with a seen hash
\* takes the place of the earlier one (the effect of a dict keyed by hash)
DedupStep_keep_last(st, item, hash_key) ==
    IF hash_key \notin st.seen_hashes
    THEN [st EXCEPT !.seen_hashes = @ \cup {hash_key},
                    !.deduplicated = Append(@, item)]
    ELSE [st EXCEPT !.duplicates_found = @ + 1,
                    !.deduplicated =
                        [k \in 1..Len(@) |->
                            IF _create_hash(@[k]["item_name"], @[k]["item_quantity"],
                                            @[k]["item_rate"]) = hash_key
                            THEN item ELSE @[k]],
                    !.messages = Append(@, [text |-> "Duplicate removed",
                                            name |-> item["item_name"],
                                            qty  |-> item["item_quantity"],
                                            rate |-> item["item_rate"]])]

\* one turn of the loop of _remove_duplicates (lines 138-154)
DedupStep(st, item, hash_key) ==
    IF hash_key \notin st.seen_hashes
    THEN [st EXCEPT !.seen_hashes = @ \cup {hash_key},
                    !.deduplicated = Append(@, item)]
    ELSE [st EXCEPT !.duplicates_found = @ + 1,
                    !.messages = Append(@, [text |-> "Duplicate removed",
                                            name |-> item["item_name"],
                                            qty  |-> item["item_quantity"],
                                            rate |-> item["item_rate"]])]

RECURSIVE DedupLoop(_, _, _)
DedupLoop(items, i, st) ==
    IF i > Len(items) THEN st
    ELSE DedupLoop(items, i + 1,
             DedupStep(st, items[i],
                       _create_hash(items[i]["item_name"],
                                    items[i]["item_quantity"],
                                    items[i]["item_rate"])))

DedupResult(st) ==
    [raised |-> FALSE,
     deduplicated |-> st.deduplicated,
     messages |-> IF st.duplicates_found > 0
                  THEN Append(st.messages, [text |-> "Removed duplicate items",
                                            n |-> st.duplicates_found])
                  ELSE st.messages]

\* _remove_duplicates: (deduplicated, messages); name.lower() on a name that
\* is not a str raises AttributeError, which nothing here catches.
_remove_duplicates(items) ==
    IF \E i \in 1..Len(items) : items[i]["item_name"].t # "str"
    THEN [raised |-> TRUE, deduplicated |-> <<>>, messages |-> <<>>]
    ELSE DedupResult(DedupLoop(items, 1,
                        [seen_hashes |-> {}, deduplicated |-> <<>>,
                         duplicates_found |-> 0, messages |-> <<>>]))

HasKeyword(item) ==
    \E keyword \in subtotal_keywords : Contains(lower(item["item_name"].s), keyword)

\* line 193 read as (qty == 0 or qty == 1) and rate == 0
NoQuantityOrRate_or_first(qty, rate) ==
    /\ qty.t = "float" /\ (qty.f = 0 \/ qty.f = 1 * Scale)
    /\ rate.t = "float" /\ rate.f = 0

\* qty == 0 or qty == 1 and rate == 0  (line 193)
NoQuantityOrRate(qty, rate) ==
    \/ (qty.t = "float" /\ qty.f = 0)
    \/ (qty.t = "float" /\ qty.f = 1 * Scale /\ rate.t = "float" /\ rate.f = 0)

\* the test of _filter_subtotals that skips an item (lines 188-194)
IsSubtotal(item) ==
    HasKeyword(item) \/ NoQuantityOrRate(item["item_quantity"], item["item_rate"])

\* _filter_subtotals removing from the list it iterates over: the item that
\* follows a removed one is never examined
RECURSIVE FilterSkipping(_, _)
FilterSkipping(items, i) ==
    IF i > Len(items) THEN <<>>
    ELSE IF IsSubtotal(items[i])
    THEN (IF i + 1 <= Len(items) THEN <<items[i + 1]>> ELSE <<>>)
         \o FilterSkipping(items, i + 2)
    ELSE <<items[i]>> \o FilterSkipping(items, i + 1)

_filter_subtotals_remove_in_loop(items) == FilterSkipping(items, 1)

\* _filter_subtotals on items whose names are str
_filter_subtotals(items) ==
    Flatten([i \in 1..Len(items) |->
                IF IsSubtotal(items[i]) THEN <<>> ELSE <<items[i]>>])

\* logger.debug records of _filter_subtotals (line 189)
FilterDebug(items) ==
    Flatten([i \in 1..Len(items) |->
                IF HasKeyword(items[i])
                THEN <<[text |-> "Filtered subtotal", item |-> items[i]]>>
                ELSE <<>>])

\* Step 1 of validate_and_clean (lines 47-56), given each item's check
AmountValidation(items, checked) ==
    [validated_items |->
         Flatten([i \in 1..Len(items) |->
                     IF checked[i].valid THEN <<items[i]>> ELSE <<>>]),
     messages |->
         Flatten([i \in 1..Len(items) |->
                     IF checked[i].valid THEN <<>> ELSE <<checked[i].msg>>]),
     debug |->
         Flatten([i \in 1..Len(items) |->
                     IF checked[i].mismatch
                     THEN <<[text |-> "Amount mismatch", item |-> items[i]]>>
                     ELSE <<>>])]

\* lines 62-67: Step 3 and the returned pair
AfterDedup(items, s1, dd, final_items) ==
    [raised |-> FALSE,
     validated_items |-> s1.validated_items,
     deduplicated |-> dd.deduplicated,
     items |-> final_items,
     messages |->
         <<[text |-> "Starting validation with", n |-> Len(items)]>>
         \o s1.messages
         \o <<[text |-> "After amount validation", n |-> Len(s1.validated_items)]>>
         \o dd.messages
         \o <<[text |-> "After subtotal filtering", n |-> Len(final_items)]>>,
     debug |-> s1.debug \o FilterDebug(dd.deduplicated)]

\* lines 58-60: Step 2; an exception of _remove_duplicates propagates
AfterAmountValidation(items, s1, dd) ==
    IF dd.raised
    THEN [raised |-> TRUE, validated_items |-> s1.validated_items,
          deduplicated |-> <<>>, items |-> <<>>, messages |-> <<>>,
          debug |-> s1.debug]
    ELSE AfterDedup(items, s1, dd, _filter_subtotals(dd.deduplicated))

Validated(items, s1) ==
    AfterAmountValidation(items, s1, _remove_duplicates(s1.validated_items))

\* validate_and_clean: (final_items, messages) or an exception, and the
\* logger.debug records made on the way
validate_and_clean(items) ==
    Validated(items, AmountValidation(items,
                         [i \in 1..Len(items) |-> _validate_item(items[i])]))

-----------------------------------------------------------------------------
(* TableParser  (services/table_parser.py)                                 *)

\* the removal of currency symbols and separators of _is_numeric (line 139)
CleanedForCheck(text) ==
    replace(replace(replace(text, <<"₹">>, <<>>), <<"$">>, <<>>), <<",">>, <<>>)

\* _is_numeric(text)
_is_numeric(text) ==
    IF strip(text) = <<>> THEN FALSE ELSE ParseFloat(CleanedForCheck(strip(text))).ok

\* the removals of _parse_float without line 155: commas stay
CleanedForParse_keep_commas(text) ==
    replace(replace(replace(text, <<"₹">>, <<>>), <<"$">>, <<>>),
            <<"R","s">>, <<>>)

\* the removals of _parse_float (lines 152-155)
CleanedForParse(text) ==
    replace(replace(replace(replace(text, <<"₹">>, <<>>), <<"$">>, <<>>),
                    <<"R","s">>, <<>>), <<",">>, <<>>)

OrZero(parsed) == IF parsed.ok THEN parsed.v ELSE 0

\* _parse_float(text): 0.0 when the cleaned text does not parse
_parse_float(text) == OrZero(ParseFloat(CleanedForParse(strip(text))))

RECURSIVE Ascending(_)
Ascending(S) ==
    IF S = {} THEN <<>>
    ELSE <<CHOOSE i \in S : \A j \in S : i <= j>>
         \o Ascending(S \ {CHOOSE i \in S : \A j \in S : i <= j})

\* numeric_cols of _parse_row, as 1-based positions in ascending order
numeric_cols(texts) == Ascending({i \in 1..Len(texts) : _is_numeric(texts[i])})

\* lines 83-110: at least three numeric columns
ThreeColumns(texts, confidences, qty_idx, rate_idx, amount_idx, row_idx) ==
    [item_name     |-> PyStr(strip(join(SubSeq(texts, 1, qty_idx - 1)))),
     item_quantity |-> PyFloat(_parse_float(texts[qty_idx])),
     item_rate     |-> PyFloat(_parse_float(texts[rate_idx])),
     item_amount   |-> PyFloat(_parse_float(texts[amount_idx])),
     confidence    |-> [num |-> confidences[qty_idx] + confidences[rate_idx]
                                + confidences[amount_idx],
                        den |-> 3 * Scale],
     row_idx       |-> row_idx]

\* the fallback with the name joined from every token of the row
Fallback_whole_row_name(texts, amount, row_idx) ==
    [item_name     |-> PyStr(strip(join(texts))),
     item_quantity |-> PyFloat(1 * Scale),
     item_rate     |-> PyFloat(amount),
     item_amount   |-> PyFloat(amount),
     confidence    |-> [num |-> 1, den |-> 2],
     row_idx       |-> row_idx]

\* lines 113-124: one or two numeric columns
Fallback(texts, amount, row_idx) ==
    [item_name     |-> PyStr(strip(join(SubSeq(texts, 1, Len(texts) - 1)))),
     item_quantity |-> PyFloat(1 * Scale),
     item_rate     |-> PyFloat(amount),
     item_amount   |-> PyFloat(amount),
     confidence    |-> [num |-> 1, den |-> 2],
     row_idx       |-> row_idx]

\* lines 82-126 taking the first three numeric columns, not the last three
ParseColumns_first_three(texts, confidences, cols, row_idx) ==
    IF Len(cols) >= 3
    THEN ThreeColumns(texts, confidences, cols[1], cols[2], cols[3], row_idx)
    ELSE IF Len(cols) >= 1
    THEN Fallback(texts, _parse_float(texts[cols[Len(cols)]]), row_idx)
    ELSE PyNone

\* lines 82-126, given numeric_cols
ParseColumns(texts, confidences, cols, row_idx) ==
    IF Len(cols) >= 3
    THEN ThreeColumns(texts, confidences, cols[Len(cols) - 2],
                      cols[Len(cols) - 1], cols[Len(cols)], row_idx)
    ELSE IF Len(cols) >= 1
    THEN Fallback(texts, _parse_float(texts[cols[Len(cols)]]), row_idx)
    ELSE PyNone

RowTexts(row) == [i \in 1..Len(row) |-> row[i].text]

\* a row that is not a list (None) is written as a one-element sequence
\* holding this tag; len(row) raises TypeError on it (line 66)
NotAList(row) == Len(row) = 1 /\ "not_a_list" \in DOMAIN row[1]

TypeError == [raised |-> "TypeError"]

\* lines 73-74 raise on a token that is None or lacks "text" or "confidence"
RowRaises(row) ==
    \E i \in 1..Len(row) : ~({"text", "confidence"} \subseteq DOMAIN row[i])

\* _parse_row returning an item for a row of a single token
_parse_row_single_token(row, row_idx) ==
    IF NotAList(row) THEN TypeError
    ELSE IF Len(row) < 1 THEN PyNone
    ELSE IF RowRaises(row) THEN PyNone
    ELSE ParseColumns(RowTexts(row), [i \in 1..Len(row) |-> row[i].confidence],
                      numeric_cols(RowTexts(row)), row_idx)

\* _parse_row(row, row_idx): an item dict, or None (PyNone), or the
\* exception raised before the try of line 69.  An exception inside the try
\* is caught at line 128 and None is returned.
_parse_row(row, row_idx) ==
    IF NotAList(row) THEN TypeError
    ELSE IF Len(row) < 2 THEN PyNone
    ELSE IF RowRaises(row) THEN PyNone
    ELSE ParseColumns(RowTexts(row), [i \in 1..Len(row) |-> row[i].confidence],
                      numeric_cols(RowTexts(row)), row_idx)

\* parse_rows leaving its loop at the first row on which _parse_row raises
parse_rows_break_on_error(rs) ==
    Flatten([i \in 1..Len(rs) |->
                IF /\ \A j \in 1..i : ~NotAList(rs[j])
                   /\ _parse_row(rs[i], i - 1) \notin {PyNone, TypeError}
                THEN <<_parse_row(rs[i], i - 1)>> ELSE <<>>])

\* parse_rows(rows): the items of the rows that yield one, row_idx from 0;
\* a row on which _parse_row raises is skipped (lines 41-43)
parse_rows(rs) ==
    Flatten([i \in 1..Len(rs) |->
                IF _parse_row(rs[i], i - 1) \notin {PyNone, TypeError}
                THEN <<_parse_row(rs[i], i - 1)>> ELSE <<>>])

\* the logger.warning records of parse_rows (line 42) and _parse_row (129)
ParseWarnings(rs) ==
    Flatten([i \in 1..Len(rs) |->
                IF NotAList(rs[i])
                THEN <<[text |-> "Failed to parse row", n |-> i - 1]>>
                ELSE IF Len(rs[i]) >= 2 /\ RowRaises(rs[i])
                THEN <<[text |-> "Parse error in row", n |-> i - 1]>>
                ELSE <<>>])

-----------------------------------------------------------------------------
(* OCRExtractor.group_by_row  (services/ocr_extractor.py)                  *)

y_tolerance == 10

\* e placed after the elements of the sorted rest whose key is <= its own
InsertAt(rest, e, pos) ==
    SubSeq(rest, 1, pos) \o <<e>> \o SubSeq(rest, pos + 1, Len(rest))

InsertSorted(rest, e, k) ==
    InsertAt(rest, e, Cardinality({i \in 1..Len(rest) :
                                      rest[i].center[k] <= e.center[k]}))

\* sorted(items, key=lambda x: x["center"][k]) ; list.sort is the same sort.
\* Stable: equal keys keep their input order.  k is 1 for x, 2 for y.
RECURSIVE sorted(_, _)
sorted(items, k) ==
    IF items = <<>> THEN <<>>
    ELSE InsertSorted(sorted(SubSeq(items, 1, Len(items) - 1), k),
                      items[Len(items)], k)

RECURSIVE SumY(_)
SumY(row) == IF row = <<>> THEN 0 ELSE Head(row).center[2] + SumY(Tail(row))

\* the test of line 123 with < in place of <=
BelongsToRow_strict(item, current_row) ==
    Abs(item.center[2] * Len(current_row) - SumY(current_row))
        < y_tolerance * Len(current_row)

\* the test of line 123 with twice the tolerance
BelongsToRow_double_tolerance(item, current_row) ==
    Abs(item.center[2] * Len(current_row) - SumY(current_row))
        <= 2 * y_tolerance * Len(current_row)

\* the test of line 123 against the row's last token, not the row's mean
BelongsToRow_last_member(item, current_row) ==
    Abs(item.center[2] - current_row[Len(current_row)].center[2]) <= y_tolerance

\* abs(item_y - np.mean(ys of current_row)) <= y_tolerance
BelongsToRow(item, current_row) ==
    Abs(item.center[2] * Len(current_row) - SumY(current_row))
        <= y_tolerance * Len(current_row)

\* the loop of lines 118-128 without lines 131-132: the last row is lost
RECURSIVE GroupLoop_no_last_row(_, _, _, _)
GroupLoop_no_last_row(sorted_items, i, rs, current_row) ==
    IF i > Len(sorted_items) THEN rs
    ELSE IF BelongsToRow(sorted_items[i], current_row)
    THEN GroupLoop_no_last_row(sorted_items, i + 1, rs,
                               Append(current_row, sorted_items[i]))
    ELSE GroupLoop_no_last_row(sorted_items, i + 1, Append(rs, current_row),
                               <<sorted_items[i]>>)

\* lines 118-132: the rows, in the order they are closed
RECURSIVE GroupLoop(_, _, _, _)
GroupLoop(sorted_items, i, rs, current_row) ==
    IF i > Len(sorted_items) THEN Append(rs, current_row)
    ELSE IF BelongsToRow(sorted_items[i], current_row)
    THEN GroupLoop(sorted_items, i + 1, rs, Append(current_row, sorted_items[i]))
    ELSE GroupLoop(sorted_items, i + 1, Append(rs, current_row), <<sorted_items[i]>>)

\* group_by_row without the final row.sort by x: rows keep the arrival order
SortRows_arrival_order(grouped) == grouped

\* lines 136-137: every row sorted by x
SortRows(grouped) == [r \in 1..Len(grouped) |-> sorted(grouped[r], 1)]

GroupSorted(sorted_items) ==
    SortRows(GroupLoop(sorted_items, 2, <<>>, <<sorted_items[1]>>))

\* x["center"] raises KeyError in the sort key of line 112
NoCenter(items) == \E i \in 1..Len(items) : "center" \notin DOMAIN items[i]

\* group_by_row(items) with the default y_tolerance
group_by_row(items) ==
    IF items = <<>> THEN <<>> ELSE GroupSorted(sorted(items, 2))

-----------------------------------------------------------------------------
(* Texts and inputs the specifications draw from                           *)

T_Paracetamol == <<"P","a","r","a","c","e","t","a","m","o","l">>
T_PARACETAMOL_sp == <<"P","A","R","A","C","E","T","A","M","O","L"," ">>
T_Consultation == <<"C","o","n","s","u","l","t","a","t","i","o","n">>
T_Fee == <<"F","e","e">>
T_Consultation_Fee == <<"C","o","n","s","u","l","t","a","t","i","o","n"," ","F","e","e">>
T_Subtotal == <<"S","u","b","t","o","t","a","l">>
T_GST == <<"G","S","T">>
T_18pct == <<"1","8","%">>
T_GST_18pct == <<"G","S","T"," ","1","8","%">>
T_Pen == <<"P","e","n">>
T_0 == <<"0">>
T_1 == <<"1">>
T_5 == <<"5">>
T_10 == <<"1","0">>
T_50 == <<"5","0">>
T_500 == <<"5","0","0">>
T_60 == <<"6","0">>
T_1c234d50 == <<"1",",","2","3","4",".","5","0">>
T_INR1234d50 == <<"₹","1","2","3","4",".","5","0">>
T_USD1234d50 == <<"$","1","2","3","4",".","5","0">>
T_Rs1234d50 == <<"R","s","1","2","3","4",".","5","0">>
T_abc == <<"a","b","c">>
T_m5 == <<"-","5">>
T_m50 == <<"-","5","0">>

\* bounds
MaxRows == 3
MaxItems == 3
MaxTokens == 4
MaxBoxes == 3

\* the lines a page is made of, each the texts of its tokens left to right.
\* The numbers are small enough for the 32-bit products of AmountMismatch.
LinePool ==
    { <<T_Paracetamol, T_10, T_5, T_50>>,
      <<T_Consultation, T_Fee, T_1, T_50, T_50>>,
      <<T_Subtotal, T_60>>,
      <<T_GST, T_18pct, T_1, T_5, T_5>>,
      <<T_Pen, T_1, T_0, T_0>>,
      <<T_Pen, T_0, T_5, T_0>> }

\* vertical distance between consecutive lines: below and above y_tolerance
RowGaps == {4, 25}

Pages ==
    UNION { { [i \in 1..k |->
                 [texts |-> ls[i],
                  y |-> IF i = 1 THEN 0 ELSE ys[i - 1]] ] :
              ls \in [1..k -> LinePool],
              ys \in { f \in [1..(k - 1) -> 0..(25 * MaxRows)] :
                         \A i \in 1..(k - 1) :
                            f[i] - (IF i = 1 THEN 0 ELSE f[i - 1]) \in RowGaps } }
          : k \in 1..MaxRows }

\* the raw items the validator is called with directly
Item(name, qty, rate, amount) ==
    [item_name |-> name, item_quantity |-> qty,
     item_rate |-> rate, item_amount |-> amount]

ItemPool ==
    { Item(PyStr(T_Paracetamol), PyFloat(10 * Scale), PyFloat(5 * Scale), PyFloat(50 * Scale)),
      Item(PyStr(T_PARACETAMOL_sp), PyFloat(10 * Scale), PyFloat(5 * Scale), PyFloat(99 * Scale)),
      Item(PyStr(T_Paracetamol), PyFloat(10 * Scale), PyFloat(6 * Scale), PyFloat(60 * Scale)),
      Item(PyStr(T_Consultation_Fee), PyFloat(1 * Scale), PyFloat(50 * Scale), PyFloat(40 * Scale)),
      Item(PyStr(T_GST_18pct), PyFloat(1 * Scale), PyFloat(5 * Scale), PyFloat(5 * Scale)),
      Item(PyStr(T_Subtotal), PyFloat(1 * Scale), PyFloat(60 * Scale), PyFloat(60 * Scale)),
      Item(PyStr(T_Pen), PyFloat(1 * Scale), PyFloat(0), PyFloat(0)),
      Item(PyStr(T_Pen), PyFloat(0), PyFloat(0), PyFloat(0)),
      Item(PyStr(T_Pen), PyFloat(0), PyFloat(5 * Scale), PyFloat(5 * Scale)),
      Item(PyStr(T_Fee), PyFloat(2 * Scale), PyFloat(3 * Scale), PyNone),
      [item_name |-> PyStr(T_Fee), item_quantity |-> PyFloat(2 * Scale),
       item_amount |-> PyFloat(6 * Scale)],
      Item(PyStr(T_Fee), PyStr(T_abc), PyFloat(3 * Scale), PyFloat(6 * Scale)),
      Item(PyFloat(5 * Scale), PyFloat(2 * Scale), PyFloat(3 * Scale), PyFloat(6 * Scale)) }

\* the token texts a row handed to the parser is made of
TextPool ==
    { T_Fee, T_1, T_500, T_1c234d50, T_INR1234d50, T_USD1234d50, T_Rs1234d50,
      T_m5 }

\* token texts with signed and small numbers, for rows that go on to the
\* validator
SignedTextPool == { T_Pen, T_m5, T_5, T_10, T_m50 }

\* OCR confidence, in hundredths, of the token in column j
TokenConfidence(j) == 95 - 10 * j

Token(text, j, y) ==
    [text |-> text, confidence |-> TokenConfidence(j), center |-> <<40 * j, y>>]

SeqsUpTo(S, n) == UNION { [1..k -> S] : k \in 0..n }

\* the tokens group_by_row is called with directly: two columns, heights
\* that meet the tolerance exactly (0, 10), drift past it (0, 10, 15) and
\* straddle the mean (0, 8, 17), and a token with no center
BoxHeights == {0, 8, 10, 15, 17}

BoxPool ==
    { Token(T_1, j, y) : j \in {1, 2}, y \in BoxHeights }
        \cup { [text |-> T_1, confidence |-> TokenConfidence(1)] }

\* the rows a batch handed to parse_rows is made of: rows that give an item,
\* rows that give None, and rows on which parsing raises (a row that is
\* None; a token without "text"; a token that is None; a token without
\* "confidence")
RowPool ==
    { <<Token(T_Fee, 1, 0), Token(T_5, 2, 0)>>,
      <<Token(T_Pen, 1, 0), Token(T_10, 2, 0), Token(T_5, 3, 0), Token(T_50, 4, 0)>>,
      <<Token(T_Fee, 1, 0)>>,
      <<Token(T_Fee, 1, 0), Token(T_Pen, 2, 0)>>,
      <<[not_a_list |-> "NoneType"]>>,
      <<[confidence |-> TokenConfidence(1), center |-> <<40, 0>>], Token(T_5, 2, 0)>>,
      <<PyNone, Token(T_5, 2, 0)>>,
      <<Token(T_Fee, 1, 0), [text |-> T_5, center |-> <<80, 0>>]>> }

-----------------------------------------------------------------------------
(* extract_bill_data  (main.py:127-148)                                    *)

NotRun == [raised |-> FALSE, ran |-> FALSE]

\* OCRExtractor.extract: one token per text region of the page, with its
\* text, confidence and center; the engine's output order is not fixed.
TokensOf(pg) ==
    Flatten([i \in 1..Len(pg) |->
                [j \in 1..Len(pg[i].texts) |-> Token(pg[i].texts[j], j, pg[i].y)]])

Reverse(s) == [i \in 1..Len(s) |-> s[Len(s) + 1 - i]]

Extract ==
    /\ pc = "start"
    /\ \E rev \in BOOLEAN :
          ocr_results' = IF rev THEN Reverse(TokensOf(page)) ELSE TokensOf(page)
    /\ pc' = "ocr"
    /\ UNCHANGED <<page, rows, raw_items, validated_items, deduplicated,
                   cleaned_items, validation_msgs, debug_log, second,
                   calls, singletons>>

GroupByRow ==
    /\ pc = "ocr"
    /\ IF NoCenter(ocr_results)
       THEN pc' = "error" /\ rows' = rows
       ELSE pc' = "grouped" /\ rows' = group_by_row(ocr_results)
    /\ UNCHANGED <<page, ocr_results, raw_items, validated_items, deduplicated,
                   cleaned_items, validation_msgs, debug_log, second,
                   calls, singletons>>

ParseRows ==
    /\ pc = "grouped"
    /\ raw_items' = parse_rows(rows)
    /\ debug_log' = ParseWarnings(rows)
    /\ pc' = "parsed"
    /\ UNCHANGED <<page, ocr_results, rows, validated_items, deduplicated,
                   cleaned_items, validation_msgs, second, calls, singletons>>

\* an exception of validate_and_clean reaches the except clause of
\* extract_bill_data (main.py:199): no items, no messages
ValidateAndClean ==
    /\ pc = "parsed"
    /\ \E r \in {validate_and_clean(raw_items)} :
           /\ pc' = IF r.raised THEN "error" ELSE "validated"
           /\ validated_items' = r.validated_items
           /\ deduplicated' = r.deduplicated
           /\ cleaned_items' = r.items
           /\ validation_msgs' = r.messages
           /\ debug_log' = debug_log \o r.debug
    /\ UNCHANGED <<page, ocr_results, rows, raw_items, second, calls, singletons>>

\* validate_and_clean applied to the list it returned
ValidateAgain ==
    /\ pc = "validated"
    /\ \E r \in {validate_and_clean(cleaned_items)} :
           second' = [raised |-> r.raised, ran |-> TRUE,
                      items |-> r.items, messages |-> r.messages]
    /\ pc' = "revalidated"
    /\ UNCHANGED <<page, ocr_results, rows, raw_items, validated_items,
                   deduplicated, cleaned_items, validation_msgs, debug_log,
                   calls, singletons>>

Blank ==
    /\ validated_items = <<>>
    /\ deduplicated = <<>>
    /\ cleaned_items = <<>>
    /\ validation_msgs = <<>>
    /\ debug_log = <<>>
    /\ second = NotRun
    /\ calls = <<>>
    /\ singletons = <<>>

\* the whole pipeline on a page
Init ==
    /\ pc = "start"
    /\ page \in Pages
    /\ ocr_results = <<>>
    /\ rows = <<>>
    /\ raw_items = <<>>
    /\ Blank

Next == Extract \/ GroupByRow \/ ParseRows \/ ValidateAndClean

Spec == Init /\ [][Next]_vars

\* the validator on a list of raw items
InitValidator ==
    /\ pc = "parsed"
    /\ page = <<>>
    /\ ocr_results = <<>>
    /\ rows = <<>>
    /\ raw_items \in SeqsUpTo(ItemPool, MaxItems)
    /\ Blank

NextValidator == ValidateAndClean \/ ValidateAgain

SpecValidator == InitValidator /\ [][NextValidator]_vars

\* the parser on one row of tokens
InitParser ==
    /\ pc = "grouped"
    /\ page = <<>>
    /\ ocr_results = <<>>
    /\ \E texts \in SeqsUpTo(TextPool, MaxTokens) :
          rows = << [j \in 1..Len(texts) |-> Token(texts[j], j, 0)] >>
    /\ raw_items = <<>>
    /\ Blank

NextParser == ParseRows

SpecParser == InitParser /\ [][NextParser]_vars

\* group_by_row on a list of tokens
InitGrouper ==
    /\ pc = "ocr"
    /\ page = <<>>
    /\ ocr_results \in SeqsUpTo(BoxPool, MaxBoxes)
    /\ rows = <<>>
    /\ raw_items = <<>>
    /\ Blank

NextGrouper == GroupByRow

SpecGrouper == InitGrouper /\ [][NextGrouper]_vars

\* the parser on a batch of rows
InitBatch ==
    /\ pc = "grouped"
    /\ page = <<>>
    /\ ocr_results = <<>>
    /\ rows \in SeqsUpTo(RowPool, MaxRows)
    /\ raw_items = <<>>
    /\ Blank

NextBatch == ParseRows

SpecBatch == InitBatch /\ [][NextBatch]_vars

\* the parser, then the validator, on one row of tokens (main.py:141-147)
InitSigned ==
    /\ pc = "grouped"
    /\ page = <<>>
    /\ ocr_results = <<>>
    /\ \E texts \in SeqsUpTo(SignedTextPool, MaxTokens) :
          rows = << [j \in 1..Len(texts) |-> Token(texts[j], j, 0)] >>
    /\ raw_items = <<>>
    /\ Blank

NextSigned == ParseRows \/ ValidateAndClean

SpecSigned == InitSigned /\ [][NextSigned]_vars

-----------------------------------------------------------------------------
(* Concurrent calls of extract_bill_data sharing the module singletons      *)

Invocations == {1, 2}

\* the globals, in the order extract_bill_data fetches them, the local each
\* is bound to, and the stage then called on it
Globals == <<"_ocr_extractor", "_table_parser", "_validator">>
BoundTo == <<"ocr_extractor", "table_parser", "validator">>

\* X() of get_ocr_extractor / get_table_parser / get_validator, built by
\* call i: the instance attributes set by __init__
NewInstance(g, i) ==
    IF g = 3 THEN [class |-> "BillValidator", amount_tolerance |-> amount_tolerance,
                   made_by |-> i]
    ELSE IF g = 2 THEN [class |-> "TableParser", made_by |-> i]
    ELSE [class |-> "OCRExtractor", made_by |-> i]

\* the token lists the concurrent calls work on: a line twice; two lines
\* arriving right to left, bottom up; two lines closer than y_tolerance
ConcurrentInputs ==
    { TokensOf(<<[texts |-> <<T_Paracetamol, T_10, T_5, T_50>>, y |-> 0],
                 [texts |-> <<T_Paracetamol, T_10, T_5, T_50>>, y |-> 25]>>),
      Reverse(TokensOf(<<[texts |-> <<T_Consultation, T_Fee, T_1, T_50, T_50>>, y |-> 0],
                         [texts |-> <<T_Subtotal, T_60>>, y |-> 25]>>)),
      TokensOf(<<[texts |-> <<T_Pen, T_1, T_0, T_0>>, y |-> 0],
                 [texts |-> <<T_Paracetamol, T_10, T_5, T_50>>, y |-> 4]>>) }

\* the locals of a call that has just obtained its tokens (main.py:130);
\* given is the token list as it was handed over, ran the stages completed
NewCall(tokens) ==
    [at |-> "test", g |-> 1, given |-> tokens, ran |-> {},
     ocr_extractor |-> PyNone, ocr_results |-> tokens, rows |-> <<>>,
     table_parser |-> PyNone, raw_items |-> <<>>,
     validator |-> PyNone, cleaned_items |-> <<>>, validation_msgs |-> <<>>]

\* locals kept in one namespace shared by all calls: an assignment by one
\* call is seen by every call
SetLocal_shared(c, i, name, value) ==
    [j \in DOMAIN c |-> [c[j] EXCEPT ![name] = value]]

\* name = value in the frame of call i
SetLocal(c, i, name, value) == [c EXCEPT ![i] = [@ EXCEPT ![name] = value]]

\* the position of call i moves on
MoveTo(c, i, at, g) == [c EXCEPT ![i] = [@ EXCEPT !.at = at, !.g = g]]

\* items after group_by_row(items): sorted() builds a new list and row.sort
\* sorts the new rows, so the caller's list is as it was (lines 112, 136)
items_after_group_by_row(items) == items

\* "if _x is None" of a get_ function
TestSingleton(i) ==
    /\ calls[i].at = "test"
    /\ calls' = MoveTo(calls, i,
                       IF singletons[calls[i].g] = PyNone THEN "create" ELSE "return",
                       calls[i].g)
    /\ UNCHANGED singletons

\* "_x = X()" of a get_ function
CreateSingleton(i) ==
    /\ calls[i].at = "create"
    /\ singletons' = [singletons EXCEPT ![calls[i].g] = NewInstance(calls[i].g, i)]
    /\ calls' = MoveTo(calls, i, "return", calls[i].g)

\* "return _x" of a get_ function, bound to the caller's local
ReturnSingleton(i) ==
    /\ calls[i].at = "return"
    /\ calls' = MoveTo(SetLocal(calls, i, BoundTo[calls[i].g], singletons[calls[i].g]),
                       i, "call", calls[i].g)
    /\ UNCHANGED singletons

\* main.py:135  rows = ocr_extractor.group_by_row(ocr_results)
CallGroupByRow(i) ==
    /\ calls[i].at = "call" /\ calls[i].g = 1
    /\ calls' = [MoveTo(SetLocal(SetLocal(calls, i, "rows",
                                          group_by_row(calls[i].ocr_results)),
                                 i, "ocr_results",
                                 items_after_group_by_row(calls[i].ocr_results)),
                        i, "test", 2)
                 EXCEPT ![i].ran = @ \cup {"group_by_row"}]
    /\ UNCHANGED singletons

\* main.py:141  raw_items = table_parser.parse_rows(rows)
CallParseRows(i) ==
    /\ calls[i].at = "call" /\ calls[i].g = 2
    /\ calls' = [MoveTo(SetLocal(calls, i, "raw_items", parse_rows(calls[i].rows)),
                        i, "test", 3)
                 EXCEPT ![i].ran = @ \cup {"parse_rows"}]
    /\ UNCHANGED singletons

\* main.py:147  cleaned_items, validation_msgs = validator.validate_and_clean(raw_items)
CallValidateAndClean(i) ==
    /\ calls[i].at = "call" /\ calls[i].g = 3
    /\ \E r \in {validate_and_clean(calls[i].raw_items)} :
          calls' = [MoveTo(SetLocal(SetLocal(calls, i, "cleaned_items", r.items),
                                    i, "validation_msgs", r.messages),
                           i, IF r.raised THEN "error" ELSE "done", 3)
                    EXCEPT ![i].ran = @ \cup {"validate_and_clean"}]
    /\ UNCHANGED singletons

InitConcurrent ==
    /\ pc = "concurrent"
    /\ page = <<>>
    /\ ocr_results = <<>>
    /\ rows = <<>>
    /\ raw_items = <<>>
    /\ validated_items = <<>>
    /\ deduplicated = <<>>
    /\ cleaned_items = <<>>
    /\ validation_msgs = <<>>
    /\ debug_log = <<>>
    /\ second = NotRun
    /\ \E inputs \in [Invocations -> ConcurrentInputs] :
          calls = [i \in Invocations |-> NewCall(inputs[i])]
    /\ singletons = <<PyNone, PyNone, PyNone>>

NextConcurrent ==
    \E i \in Invocations :
        /\ \/ TestSingleton(i)
           \/ CreateSingleton(i)
           \/ ReturnSingleton(i)
           \/ CallGroupByRow(i)
           \/ CallParseRows(i)
           \/ CallValidateAndClean(i)
        /\ UNCHANGED <<pc, page, ocr_results, rows, raw_items, validated_items,
                       deduplicated, cleaned_items, validation_msgs, debug_log,
                       second>>

SpecConcurrent == InitConcurrent /\ [][NextConcurrent]_vars

-----------------------------------------------------------------------------
(* Properties                                                              *)

\* the validator has returned (once, or a second time on its own output)
Returned == pc \in {"validated", "revalidated"}

\* the fingerprint of an item: lower-cased, trimmed name with the exact
\* quantity and rate
Fingerprint(item) ==
    <<strip(lower(item["item_name"].s)), item["item_quantity"], item["item_rate"]>>

RECURSIVE IsSubsequence(_, _)
IsSubsequence(a, b) ==
    IF a = <<>> THEN TRUE
    ELSE IF b = <<>> THEN FALSE
    ELSE IF Head(a) = Head(b) THEN IsSubsequence(Tail(a), Tail(b))
    ELSE IsSubsequence(a, Tail(b))

\* the elements of s at the positions in K, in order
Restrict(s, K) == Flatten([i \in 1..Len(s) |-> IF i \in K THEN <<s[i]>> ELSE <<>>])

\* the lines that give a count, not the reason of one drop
CountTexts == {"Starting validation with", "After amount validation",
               "After subtotal filtering", "Removed duplicate items"}

\* the per-drop lines of a message list: every other line
DropLines(msgs) == {k \in 1..Len(msgs) : msgs[k].text \notin CountTexts}

HasCount(msgs, text, n) ==
    \E k \in 1..Len(msgs) : msgs[k].text = text /\ msgs[k].n = n

\* C1: no two items returned by validate_and_clean have the same fingerprint
\* (lower-cased trimmed name, quantity, rate).
C1_UniqueFingerprints ==
    Returned =>
        \A i, j \in 1..Len(cleaned_items) :
            i # j => Fingerprint(cleaned_items[i]) # Fingerprint(cleaned_items[j])

\* two items that differ only in the case and trailing blank of their names
\* came in, one was dropped as a duplicate and two items were returned
C1_Witness ==
    /\ pc = "validated"
    /\ Len(cleaned_items) >= 2
    /\ \E i, j \in 1..Len(validated_items) :
          /\ i < j
          /\ validated_items[i]["item_name"] # validated_items[j]["item_name"]
          /\ Fingerprint(validated_items[i]) = Fingerprint(validated_items[j])

\* the positions of raw_items that pass the field/amount check
PassingPositions == {i \in 1..Len(raw_items) : _validate_item(raw_items[i]).valid}

\* of those, the earliest position of each fingerprint
EarliestPositions ==
    {i \in PassingPositions :
        \A j \in PassingPositions :
            j < i => Fingerprint(raw_items[j]) # Fingerprint(raw_items[i])}

\* C2: the returned list is a subsequence of the input, and it is taken from
\* the earliest item of each fingerprint among the items that pass the
\* field/amount check: a later item with a seen fingerprint never appears.
C2_FirstOccurrenceSubsequence ==
    Returned =>
        /\ IsSubsequence(cleaned_items, raw_items)
        /\ IsSubsequence(cleaned_items, Restrict(raw_items, EarliestPositions))
        /\ deduplicated = Restrict(raw_items, EarliestPositions)
        /\ IsSubsequence(cleaned_items, deduplicated)

\* a later item with the fingerprint of a returned item, and another amount,
\* came in and is not in the returned list
C2_Witness ==
    /\ pc = "validated"
    /\ \E i, j \in PassingPositions :
          /\ i < j
          /\ Fingerprint(raw_items[i]) = Fingerprint(raw_items[j])
          /\ raw_items[i]["item_amount"] # raw_items[j]["item_amount"]
          /\ \E k \in 1..Len(cleaned_items) : cleaned_items[k] = raw_items[i]
          /\ \A k \in 1..Len(cleaned_items) : cleaned_items[k] # raw_items[j]

\* C3: the message list gives the initial count, the count remaining after
\* the stages, and one line for every dropped item, so that the per-drop
\* lines number len(input) - len(output).  (The list has no line at all for
\* the count after deduplication; the counts that have a line are asked for.)
C3_AuditTrailComplete ==
    pc = "validated" =>
        /\ HasCount(validation_msgs, "Starting validation with", Len(raw_items))
        /\ HasCount(validation_msgs, "After amount validation", Len(validated_items))
        /\ HasCount(validation_msgs, "After subtotal filtering", Len(cleaned_items))
        /\ Cardinality(DropLines(validation_msgs)) = Len(raw_items) - Len(cleaned_items)

\* all four fields present and not None, quantity > 0, rate > 0, any amount
WellFormedPositive(item) ==
    /\ \A i \in 1..4 : required_fields[i] \in DOMAIN item
    /\ \A i \in 1..4 : item[required_fields[i]] # PyNone
    /\ item["item_quantity"].t = "float" /\ item["item_quantity"].f > 0
    /\ item["item_rate"].t = "float" /\ item["item_rate"].f > 0
    /\ item["item_amount"].t = "float"

\* |amount - quantity*rate| / max(amount, quantity*rate) > 0.05
OverTolerance(item) ==
    LET q == item["item_quantity"].f
        r == item["item_rate"].f
        a == item["item_amount"].f * Scale
    IN  20 * (IF a >= q * r THEN a - q * r ELSE q * r - a)
            > (IF a >= q * r THEN a ELSE q * r)

\* C4: every item with the four fields present and not None, quantity > 0 and
\* rate > 0 passes the field/amount check whatever its amount; a relative
\* error above 0.05 is logged and gates nothing.
C4_MismatchNeverRejects ==
    pc \in {"validated", "revalidated", "error"} =>
        /\ IsSubsequence(Restrict(raw_items,
                             {i \in 1..Len(raw_items) : WellFormedPositive(raw_items[i])}),
                         validated_items)
        /\ \A i \in 1..Len(raw_items) :
              (WellFormedPositive(raw_items[i]) /\ OverTolerance(raw_items[i]))
                 => \E k \in 1..Len(debug_log) :
                       /\ debug_log[k].text = "Amount mismatch"
                       /\ debug_log[k].item = raw_items[i]

\* an item whose amount is off by more than the tolerance was returned
C4_Witness ==
    /\ pc = "validated"
    /\ \E k \in 1..Len(cleaned_items) :
          WellFormedPositive(cleaned_items[k]) /\ OverTolerance(cleaned_items[k])

ClaimKeywords ==
    { <<"s","u","b","t","o","t","a","l">>, <<"s","u","b","-","t","o","t","a","l">>,
      <<"t","o","t","a","l">>, <<"t","a","x">>, <<"g","s","t">>,
      <<"d","i","s","c","o","u","n","t">> }

\* C5: no returned item has a lower-cased name containing subtotal,
\* sub-total, total, tax, gst or discount, nor quantity 0, nor quantity 1
\* together with rate 0.
C5_NoSubtotalRows ==
    Returned =>
        \A k \in 1..Len(cleaned_items) :
            /\ \A kw \in ClaimKeywords :
                  ~Contains(lower(cleaned_items[k]["item_name"].s), kw)
            /\ cleaned_items[k]["item_quantity"] # PyFloat(0)
            /\ ~(/\ cleaned_items[k]["item_quantity"] = PyFloat(1 * Scale)
                 /\ cleaned_items[k]["item_rate"] = PyFloat(0))

\* "GST 18%" and a quantity 1, rate 0, amount 0 item came in and passed the
\* first two stages; something else was returned
C5_Witness ==
    /\ pc = "validated"
    /\ cleaned_items # <<>>
    /\ \E i, j \in 1..Len(deduplicated) :
          /\ deduplicated[i]["item_name"] = PyStr(T_GST_18pct)
          /\ deduplicated[j] = Item(PyStr(T_Pen), PyFloat(1 * Scale), PyFloat(0), PyFloat(0))

\* C6: validate_and_clean applied to the list it returned returns that list
\* again, in the same order, and drops nothing.
C6_IdempotentOnOutput ==
    pc = "revalidated" =>
        /\ ~second.raised
        /\ second.items = cleaned_items
        /\ {Fingerprint(second.items[k]) : k \in 1..Len(second.items)}
              = {Fingerprint(cleaned_items[k]) : k \in 1..Len(cleaned_items)}
        /\ DropLines(second.messages) = {}
        /\ \A k \in 1..Len(second.messages) :
              second.messages[k].n = Len(cleaned_items)

\* the first call dropped an item and returned two; the second call has run
\* on them
C6_Witness ==
    /\ pc = "revalidated"
    /\ Len(cleaned_items) >= 2
    /\ Len(cleaned_items) < Len(raw_items)
    /\ second.ran

\* every line of the page lies more than y_tolerance below the one before
IsolatedRows ==
    \A i \in 2..Len(page) : page[i].y - page[i - 1].y > y_tolerance

\* a line that reads a name followed by a quantity, a rate and an amount
ReadsFourFields(line) ==
    /\ Len(line) >= 4
    /\ \A j \in (Len(line) - 2)..Len(line) : AllDigits(line[j]) /\ line[j] # <<>>
    /\ \A j \in 1..(Len(line) - 3) : ~AllDigits(line[j])

\* the item such a line reads
ReadingOf(line) ==
    Item(PyStr(join(SubSeq(line, 1, Len(line) - 3))),
         PyFloat(NatOf(line[Len(line) - 2]) * Scale),
         PyFloat(NatOf(line[Len(line) - 1]) * Scale),
         PyFloat(NatOf(line[Len(line)]) * Scale))

SameReading(item, reading) ==
    \A i \in 1..4 : item[required_fields[i]] = reading[required_fields[i]]

Occurrences(line) == {i \in 1..Len(page) : page[i].texts = line}

\* one returned item with the line's reading, and a "Duplicate removed" line
\* for each of its other occurrences
OneItemForLine(line) ==
    /\ Cardinality({k \in 1..Len(cleaned_items) :
                       SameReading(cleaned_items[k], ReadingOf(line))}) = 1
    /\ Cardinality({k \in 1..Len(validation_msgs) :
                       /\ validation_msgs[k].text = "Duplicate removed"
                       /\ validation_msgs[k].name = ReadingOf(line)["item_name"]
                       /\ validation_msgs[k].qty = ReadingOf(line)["item_quantity"]
                       /\ validation_msgs[k].rate = ReadingOf(line)["item_rate"]})
          = Cardinality(Occurrences(line)) - 1

\* the reading is neither a subtotal, tax or discount line nor a line with
\* no quantity or no rate
KeptReading(reading) ==
    /\ \A kw \in ClaimKeywords : ~Contains(lower(reading["item_name"].s), kw)
    /\ reading["item_quantity"].f # 0
    /\ ~(reading["item_quantity"].f = 1 * Scale /\ reading["item_rate"].f = 0)

\* C7 as stated: k >= 2 rows, more than y_tolerance apart, that read the same
\* name, quantity, rate and amount give exactly one returned item with that
\* amount, and k - 1 duplicate removals in the messages.
C7_IdenticalRowsOneItem_AnyReading ==
    (pc = "validated" /\ IsolatedRows) =>
        \A i \in 1..Len(page) :
            (ReadsFourFields(page[i].texts)
             /\ Cardinality(Occurrences(page[i].texts)) >= 2)
                => OneItemForLine(page[i].texts)

\* C7, amended: the same, for rows whose name holds none of the subtotal
\* keywords, whose quantity is not 0, and that are not quantity 1 at rate 0.
C7_IdenticalRowsOneItem ==
    (pc = "validated" /\ IsolatedRows) =>
        \A i \in 1..Len(page) :
            (ReadsFourFields(page[i].texts)
             /\ KeptReading(ReadingOf(page[i].texts))
             /\ Cardinality(Occurrences(page[i].texts)) >= 2)
                => OneItemForLine(page[i].texts)

\* "Paracetamol 10 5 50" on two rows 25 apart, read from tokens that came in
\* right-to-left, bottom-up: one item with amount 50.0 was returned
C7_Witness ==
    /\ pc = "validated"
    /\ IsolatedRows
    /\ Cardinality(Occurrences(<<T_Paracetamol, T_10, T_5, T_50>>)) = 2
    /\ ocr_results # <<>> /\ ocr_results[1].text = T_50
    /\ \E k \in 1..Len(cleaned_items) :
          /\ cleaned_items[k]["item_name"] = PyStr(T_Paracetamol)
          /\ cleaned_items[k]["item_amount"] = PyFloat(50 * Scale)
    /\ \E k \in 1..Len(validation_msgs) : validation_msgs[k].text = "Duplicate removed"

\* the one row handed to the parser, its texts and confidences
ParsedRow == rows[1]

ParsedTexts == [j \in 1..Len(ParsedRow) |-> ParsedRow[j].text]

\* numeric as the claim has it: a float once the currency markers, Rs among
\* them, and the commas are removed
NumericWithoutMarkers(text) ==
    ParseFloat(replace(replace(replace(replace(strip(text),
        <<"₹">>, <<>>), <<"$">>, <<>>), <<"R","s">>, <<>>), <<",">>, <<>>)).ok

\* C8 as stated: a row is parsed with the tokens classified numeric exactly
\* when their text, less the markers (the rupee sign, $, Rs) and commas, is a
\* float; so a row's item is the one those columns give.
C8_NumericAfterRemovingMarkers ==
    (pc = "parsed" /\ Len(ParsedRow) >= 2) =>
        raw_items =
            Flatten(<< IF \E j \in 1..Len(ParsedRow) : NumericWithoutMarkers(ParsedTexts[j])
                       THEN << ParseColumns(ParsedTexts,
                                  [j \in 1..Len(ParsedRow) |-> ParsedRow[j].confidence],
                                  Ascending({j \in 1..Len(ParsedRow) :
                                                NumericWithoutMarkers(ParsedTexts[j])}),
                                  0) >>
                       ELSE <<>> >>)

\* the positions of the row's numeric tokens
NumericPositions == {j \in 1..Len(ParsedRow) : _is_numeric(ParsedTexts[j])}

\* q, r, a are the last three numeric positions, left to right
LastThree(q, r, a) ==
    /\ {q, r, a} \subseteq NumericPositions
    /\ q < r /\ r < a
    /\ \A n \in NumericPositions \ {q, r, a} : n < q

ItemFields ==
    {"item_name", "item_quantity", "item_rate", "item_amount", "confidence", "row_idx"}

\* C9: of a row of at least 2 tokens with at least 3 numeric ones, the last
\* three numeric tokens are the quantity, rate and amount, the name is the
\* tokens before the quantity token joined by single spaces, the confidence
\* is the mean of the three tokens' confidences, and nothing else is read.
C9_LastThreeNumerics ==
    (pc = "parsed" /\ Len(ParsedRow) >= 2 /\ Cardinality(NumericPositions) >= 3) =>
        /\ Len(raw_items) = 1
        /\ DOMAIN raw_items[1] = ItemFields
        /\ \E q, r, a \in NumericPositions :
              /\ LastThree(q, r, a)
              /\ raw_items[1]["item_quantity"] = PyFloat(_parse_float(ParsedTexts[q]))
              /\ raw_items[1]["item_rate"] = PyFloat(_parse_float(ParsedTexts[r]))
              /\ raw_items[1]["item_amount"] = PyFloat(_parse_float(ParsedTexts[a]))
              /\ raw_items[1]["item_name"] = PyStr(join(SubSeq(ParsedTexts, 1, q - 1)))
              /\ raw_items[1]["confidence"].num * 3 * Scale
                    = (ParsedRow[q].confidence + ParsedRow[r].confidence
                       + ParsedRow[a].confidence) * raw_items[1]["confidence"].den

\* a row of four numeric tokens was parsed: the first one is the name, and a
\* row with a word between the chosen tokens gives an empty name
C9_Witness ==
    /\ pc = "parsed"
    /\ Len(ParsedRow) = 4
    /\ \/ /\ NumericPositions = 1..4
          /\ ParsedTexts[1] # ParsedTexts[4]
          /\ raw_items[1]["item_name"] = PyStr(ParsedTexts[1])
       \/ /\ NumericPositions = {1, 3, 4}
          /\ raw_items[1]["item_name"] = PyStr(<<>>)

\* C10: of a row of at least 2 tokens with exactly 1 or 2 numeric ones, the
\* item has rate = amount = the value of the last numeric token, quantity
\* 1.0, confidence 0.5, and the name joined from all tokens but the row's last.
C10_FallbackLastNumeric ==
    (pc = "parsed" /\ Len(ParsedRow) >= 2 /\ Cardinality(NumericPositions) \in {1, 2}) =>
        /\ Len(raw_items) = 1
        /\ DOMAIN raw_items[1] = ItemFields
        /\ \E a \in NumericPositions :
              /\ \A n \in NumericPositions : n <= a
              /\ raw_items[1]["item_rate"] = PyFloat(_parse_float(ParsedTexts[a]))
              /\ raw_items[1]["item_amount"] = PyFloat(_parse_float(ParsedTexts[a]))
        /\ raw_items[1]["item_quantity"] = PyFloat(1 * Scale)
        /\ raw_items[1]["confidence"].num * 2 = raw_items[1]["confidence"].den
        /\ raw_items[1]["item_name"]
              = PyStr(join(SubSeq(ParsedTexts, 1, Len(ParsedRow) - 1)))

\* a row with two numeric tokens of different values and a word last was
\* parsed: the later value is the amount and the name holds both numbers
C10_Witness ==
    /\ pc = "parsed"
    /\ Len(ParsedRow) = 3
    /\ NumericPositions = {1, 2}
    /\ _parse_float(ParsedTexts[1]) # _parse_float(ParsedTexts[2])
    /\ raw_items[1]["item_amount"] = PyFloat(_parse_float(ParsedTexts[2]))
    /\ raw_items[1]["item_name"] = PyStr(join(SubSeq(ParsedTexts, 1, 2)))

\* C11: a row yields an item if and only if it has at least 2 tokens and at
\* least 1 numeric token; any other row yields None and adds nothing to the
\* output of parse_rows.
C11_ItemIffTwoTokensOneNumeric ==
    pc = "parsed" =>
        /\ Len(raw_items) <= 1
        /\ (raw_items # <<>>) <=> (Len(ParsedRow) >= 2 /\ NumericPositions # {})

\* a row of one numeric token was parsed and gave nothing
C11_Witness ==
    /\ pc = "parsed"
    /\ Len(ParsedRow) = 1
    /\ NumericPositions = {1}
    /\ raw_items = <<>>

NonNegative(item) ==
    /\ item["item_quantity"].f >= 0
    /\ item["item_rate"].f >= 0
    /\ item["item_amount"].f >= 0

\* C12 as stated: every raw item of parse_rows has quantity, rate and amount
\* >= 0, whatever the token texts (a signed number such as "-5" among them),
\* and so has every item validate_and_clean returns on that output.
C12_NonNegativeFields ==
    /\ pc \in {"parsed", "validated"} =>
          \A k \in 1..Len(raw_items) : NonNegative(raw_items[k])
    /\ pc = "validated" =>
          \A k \in 1..Len(cleaned_items) : NonNegative(cleaned_items[k])

\* parsing row i raises: before the try of _parse_row, or inside it
RaisesOnRow(i) ==
    NotAList(rows[i]) \/ (Len(rows[i]) >= 2 /\ RowRaises(rows[i]))

\* the rows that do not raise and, parsed alone, give an item
ItemRows == {i \in 1..Len(rows) : ~RaisesOnRow(i) /\ parse_rows(<<rows[i]>>) # <<>>}

\* C13: whichever rows raise while being parsed, parse_rows returns, and its
\* output is exactly the items of the other rows that parse to an item, in
\* row order, each with row_idx the index of its row; row_idx is strictly
\* increasing along the output.
C13_RowFailureSkipsRow ==
    pc = "parsed" =>
        /\ raw_items =
              Flatten([i \in 1..Len(rows) |->
                          IF i \in ItemRows
                          THEN <<[parse_rows(<<rows[i]>>)[1] EXCEPT !.row_idx = i - 1]>>
                          ELSE <<>>])
        /\ Len(raw_items) = Cardinality(ItemRows)
        /\ \A k \in 1..Len(raw_items) : (raw_items[k].row_idx + 1) \in ItemRows
        /\ \A k \in 2..Len(raw_items) : raw_items[k - 1].row_idx < raw_items[k].row_idx

\* a row that is None, then a row with a token lacking "text", then a row
\* that parses: the batch returned that row's item with row_idx 2, and both
\* failures were logged
C13_Witness ==
    /\ pc = "parsed"
    /\ Len(rows) = 3
    /\ NotAList(rows[1])
    /\ Len(rows[2]) >= 2 /\ RowRaises(rows[2])
    /\ Len(raw_items) = 1 /\ raw_items[1].row_idx = 2
    /\ debug_log = <<[text |-> "Failed to parse row", n |-> 0],
                     [text |-> "Parse error in row", n |-> 1]>>

\* C14 as stated: no stage raises to its caller, whatever the input (raw
\* items with missing or wrongly typed fields, a name that is not a str,
\* among them): validate_and_clean always returns items and messages, and
\* returns no item when given none.
C14_NoStageRaises ==
    /\ pc # "error"
    /\ (Returned /\ raw_items = <<>>) => cleaned_items = <<>>
    /\ Returned => Len(validation_msgs) >= 2

X(token) == token.center[1]
Y(token) == token.center[2]

\* how many times e occurs in seq
Count(seq, e) == Cardinality({i \in 1..Len(seq) : seq[i] = e})

\* a and b hold the same tokens the same number of times
SameTokens(a, b) ==
    /\ Len(a) = Len(b)
    /\ \A i \in 1..Len(a) : Count(a, a[i]) = Count(b, a[i])

AscendingX(row) == \A i \in 1..(Len(row) - 1) : X(row[i]) <= X(row[i + 1])

\* max y - min y <= y_tolerance
WithinTolerance(items) ==
    \A i, j \in 1..Len(items) : Y(items[i]) - Y(items[j]) <= y_tolerance

\* C15: tokens whose center.y are pairwise within y_tolerance come back as
\* exactly one row holding all of them in ascending center.x order, whatever
\* order they came in.
C15_CloseTokensOneRow ==
    (pc = "grouped" /\ ocr_results # <<>> /\ WithinTolerance(ocr_results)) =>
        /\ Len(rows) = 1
        /\ SameTokens(rows[1], ocr_results)
        /\ AscendingX(rows[1])

\* three tokens, two of them exactly y_tolerance apart, that came in right to
\* left, were grouped into one row
C15_Witness ==
    /\ pc = "grouped"
    /\ Len(ocr_results) = 3
    /\ WithinTolerance(ocr_results)
    /\ \E i, j \in 1..3 : Y(ocr_results[i]) - Y(ocr_results[j]) = y_tolerance
    /\ X(ocr_results[1]) > X(ocr_results[2])
    /\ Len(rows) = 1

\* C16: a token that lies more than y_tolerance below every token gathered
\* in the current row when its turn comes is not put into that row; so a
\* token of a returned row that is not the row's topmost has another token of
\* the row, at its height or above, within y_tolerance of it.
C16_FarTokensDifferentRows ==
    pc = "grouped" =>
        \A r \in 1..Len(rows) :
            \A j \in 1..Len(rows[r]) :
                (\E k \in 1..Len(rows[r]) : Y(rows[r][k]) < Y(rows[r][j]))
                    => \E k \in 1..Len(rows[r]) :
                          /\ k # j
                          /\ Y(rows[r][k]) <= Y(rows[r][j])
                          /\ Y(rows[r][j]) - Y(rows[r][k]) <= y_tolerance

\* a token more than y_tolerance below every token of the row before it
\* started a row of its own
C16_Witness ==
    /\ pc = "grouped"
    /\ Len(ocr_results) = 3
    /\ Len(rows) = 2
    /\ \A k \in 1..Len(rows[1]) : Y(rows[2][1]) - Y(rows[1][k]) > y_tolerance

\* of the positions S of ocr_results, the one with the least center.y (the
\* earliest of them when several have it)
FirstByY(S) ==
    CHOOSE i \in S :
        \A j \in S : \/ Y(ocr_results[i]) < Y(ocr_results[j])
                     \/ (Y(ocr_results[i]) = Y(ocr_results[j]) /\ i <= j)

\* the tokens at the positions S in ascending center.y order
RECURSIVE ByY(_)
ByY(S) ==
    IF S = {} THEN <<>>
    ELSE <<ocr_results[FirstByY(S)]>> \o ByY(S \ {FirstByY(S)})

\* |y - sum / n| <= y_tolerance, for the n >= 1 tokens of the current row
RefJoins(token, n, sum) ==
    /\ Y(token) * n - sum <= y_tolerance * n
    /\ sum - Y(token) * n <= y_tolerance * n

\* the reference pass: cur is the current row, n its length, sum the sum of
\* its center.y; a token joins it or closes it and starts the next row
RECURSIVE RefPass(_, _, _, _, _)
RefPass(ts, closed, cur, n, sum) ==
    IF ts = <<>> THEN (IF cur = <<>> THEN closed ELSE Append(closed, cur))
    ELSE IF cur = <<>> \/ RefJoins(Head(ts), n, sum)
    THEN RefPass(Tail(ts), closed, Append(cur, Head(ts)), n + 1, sum + Y(Head(ts)))
    ELSE RefPass(Tail(ts), Append(closed, cur), <<Head(ts)>>, 1, Y(Head(ts)))

ReferenceRows == RefPass(ByY(1..Len(ocr_results)), <<>>, <<>>, 0, 0)

\* C18: group_by_row returns the rows of the reference single pass over the
\* tokens in ascending center.y order (join when within y_tolerance of the
\* current row's mean, boundary included, else close the row; no row is
\* revisited), top to bottom by mean center.y, each in ascending center.x.
C18_EqualsReferencePass ==
    pc = "grouped" =>
        /\ Len(rows) = Len(ReferenceRows)
        /\ \A r \in 1..Len(rows) :
              SameTokens(rows[r], ReferenceRows[r]) /\ AscendingX(rows[r])
        /\ \A r \in 1..(Len(rows) - 1) :
              SumY(rows[r]) * Len(rows[r + 1]) < SumY(rows[r + 1]) * Len(rows[r])

\* tokens at y = 0, 10 and 15, not arriving top to bottom, came back as one
\* row although 0 and 15 are 15 apart
C18_Witness ==
    /\ pc = "grouped"
    /\ {Y(ocr_results[i]) : i \in 1..Len(ocr_results)} = {0, 10, 15}
    /\ Y(ocr_results[1]) > Y(ocr_results[2])
    /\ Len(rows) = 1
    /\ Len(rows[1]) = 3

\* C19: every input token is in exactly one returned row exactly once, no
\* returned row is empty, and the rows hold as many tokens as came in.
C19_RowsPartitionInput ==
    pc = "grouped" =>
        /\ SameTokens(Flatten(rows), ocr_results)
        /\ Len(Flatten(rows)) = Len(ocr_results)
        /\ \A r \in 1..Len(rows) : rows[r] # <<>>

\* the same token twice and a token far below came back as two rows
C19_Witness ==
    /\ pc = "grouped"
    /\ Len(ocr_results) = 3
    /\ \E i, j \in 1..3 : i < j /\ ocr_results[i] = ocr_results[j]
    /\ Len(rows) = 2

\* the number float() gives in _is_numeric for a text it accepts
DetectedValue(text) == ParseFloat(CleanedForCheck(strip(text))).v

\* C20: every text _is_numeric accepts is converted by _parse_float without
\* its ValueError fallback and to the number _is_numeric parsed; so the
\* quantity, rate and amount of a parsed row are the numbers detected in its
\* tokens, none replaced by 0.0.
C20_DetectionAgreesWithConversion ==
    pc = "parsed" =>
        /\ \A j \in NumericPositions :
              /\ ParseFloat(CleanedForParse(strip(ParsedTexts[j]))).ok
              /\ _parse_float(ParsedTexts[j]) = DetectedValue(ParsedTexts[j])
        /\ (raw_items # <<>> /\ Cardinality(NumericPositions) >= 3) =>
              \E q, r, a \in NumericPositions :
                 /\ LastThree(q, r, a)
                 /\ raw_items[1]["item_quantity"].f = DetectedValue(ParsedTexts[q])
                 /\ raw_items[1]["item_rate"].f = DetectedValue(ParsedTexts[r])
                 /\ raw_items[1]["item_amount"].f = DetectedValue(ParsedTexts[a])
        /\ (raw_items # <<>> /\ Cardinality(NumericPositions) < 3) =>
              \E a \in NumericPositions :
                 /\ \A n \in NumericPositions : n <= a
                 /\ raw_items[1]["item_rate"].f = DetectedValue(ParsedTexts[a])
                 /\ raw_items[1]["item_amount"].f = DetectedValue(ParsedTexts[a])

\* a row whose quantity, rate and amount are written with a comma, a rupee
\* sign and a dollar sign was parsed to three non-zero numbers
C20_Witness ==
    /\ pc = "parsed"
    /\ Len(ParsedRow) = 4
    /\ {ParsedTexts[j] : j \in 2..4} = {T_1c234d50, T_INR1234d50, T_USD1234d50}
    /\ raw_items # <<>>
    /\ raw_items[1]["item_quantity"].f # 0
    /\ raw_items[1]["item_rate"].f # 0
    /\ raw_items[1]["item_amount"].f # 0

\* what the call's token list gives when the three stages are run on it alone
AloneRows(given) == group_by_row(given)
AloneItems(given) == parse_rows(group_by_row(given))
AloneResult(given) == validate_and_clean(parse_rows(group_by_row(given)))

\* the results call c holds so far are those of its own token list
OwnResults(c) ==
    /\ c.ocr_results = c.given
    /\ "group_by_row" \in c.ran => c.rows = AloneRows(c.given)
    /\ "parse_rows" \in c.ran =>
          c.raw_items = AloneItems(c.given) /\ c.rows = AloneRows(c.given)
    /\ "validate_and_clean" \in c.ran =>
          /\ c.cleaned_items = AloneResult(c.given).items
          /\ c.validation_msgs = AloneResult(c.given).messages
          /\ c.raw_items = AloneItems(c.given)

====
